---------------------------- MODULE Spec2Model ----------------------------
(***************************************************************************)
(* A model of the action-solver library: ActionSolverBuilder,              *)
(* ActionSolver / SequentialExecutionActionSolver, Action and SolverState. *)
(*                                                                         *)
(* Action classes are strings, Result types are strings; the igraph        *)
(* vertex ordinals 0..n-1 of the code are the positions 1..n of the        *)
(* sequences here (ordinal o of the code is position o+1).                 *)
(***************************************************************************)
EXTENDS Integers, Sequences, FiniteSets, TLC

VARIABLES
    classes,        \* the Action subclasses of the program using the library
    result,         \* ActionSolverBuilder.result / ActionSolver._result
    dry_run,        \* ActionSolverBuilder.dry_run / ActionSolver._dry_run
    graph,          \* ActionSolverBuilder.graph: [vs, es] (shared with the solver)
    actions,        \* ActionSolverBuilder.actions (shared with the solver)
    globals,        \* solver_state.globals
    results,        \* solver_state.results
    pc,             \* position of the calling program
    error,          \* the exception that surfaced to the caller, or "none"
    order,          \* the list topological_sorting() returned to solve()
    step,           \* number of iterations of solve()'s loop that have begun
    final_result,   \* local variable final_result of solve()
    returned,       \* the value solve() returned, or NoValue
    declared,       \* the <<action, depends_on>> pairs given to add_dependency
    graph_log,      \* the add_dependency / add_dependencies_from calls made
    bind_log,       \* the kwargs of the bind_globals calls, in call order
    calls,          \* one record per _apply_step invocation
    markers         \* messages handed to Action._log, in order

vars == <<classes, result, dry_run, graph, actions, globals, results, pc,
          error, order, step, final_result, returned, declared, graph_log,
          bind_log, calls, markers>>

(***************************************************************************)
(* Bounds                                                                  *)
(***************************************************************************)
\* the number of builder method calls (add_dependency,
\* add_dependencies_from, bind_globals) a program makes
MaxBuilderCalls == 3

\* stands for sys.getrecursionlimit(), counted in add_dependencies_from frames
RecursionLimit == 5

(***************************************************************************)
(* Values                                                                  *)
(***************************************************************************)
NoValue == [type |-> "NoValue", by |-> "", fields |-> <<>>, text |-> <<>>]

BaseResult == "Action.Result"

VoidResultType == "VoidResult"

\* an instance of a Result class: its class, the action that created it
\* (object identity), its integer fields and its string field
MkResult(type, by, fields, text) ==
    [type |-> type, by |-> by, fields |-> fields, text |-> text]

\* VoidResult() as constructed by `by`
VoidResult(by) == MkResult(VoidResultType, by, <<>>, <<>>)

\* values bound in globals: integers, logging.Logger objects, other objects
IntVal(n) == [kind |-> "int", v |-> n]

LoggerVal == [kind |-> "Logger", v |-> 0]

StrVal == [kind |-> "str", v |-> 0]

NoneVal == [kind |-> "NoneType", v |-> 0]

\* isinstance(obj, cls) for Result classes: every Result class derives
\* from Action.Result and from nothing else
IsInstance(obj, cls) == obj.type = cls \/ cls = BaseResult

(***************************************************************************)
(* The programs: sets of Action subclasses                                 *)
(***************************************************************************)
\* One Action subclass.
\*   has_get_dependent_actions / get_dependent_actions: the classmethod the
\*       builder calls (Action itself defines none)
\*   dependent_actions: the property get_result checks against (default [])
\*   Result: the class attribute Result (inner class)
\*   impl: which _production_impl; "generic" calls get_global for `keys`,
\*       then get_result for `reads`, then returns an instance of `returns`
\*   has_dry_run_impl: whether _dry_run_impl is overridden (it then returns
\*       an instance of `returns` without reading anything)
MkClass(has_get, get_deps, prop_deps, res, impl, keys, reads, returns, dry) ==
    [has_get_dependent_actions |-> has_get,
     get_dependent_actions |-> get_deps,
     dependent_actions |-> prop_deps,
     Result |-> res,
     impl |-> impl,
     keys |-> keys,
     reads |-> reads,
     returns |-> returns,
     has_dry_run_impl |-> dry]

\* the classes of tests/test_sequential_solver.py
TestClasses ==
    [ProcessInputs |->
        MkClass(FALSE, <<>>, <<>>, "ProcessInputs.Result", "ProcessInputs",
                <<>>, <<>>, "ProcessInputs.Result", FALSE),
     Add |->
        MkClass(TRUE, <<"ProcessInputs">>, <<>>, "Add.Result", "Add",
                <<>>, <<>>, "Add.Result", FALSE),
     Multiply |->
        MkClass(TRUE, <<"Add">>, <<>>, "Multiply.Result", "Multiply",
                <<>>, <<>>, "Multiply.Result", FALSE),
     ReverseDigits |->
        MkClass(TRUE, <<"Multiply">>, <<>>, "ReverseDigits.Result",
                "ReverseDigits", <<>>, <<>>, "ReverseDigits.Result", FALSE)]

\* a chain A <- B <- C whose classes declare their dependencies both through
\* the classmethod and through the property; C has no dry-run implementation
ChainClasses ==
    [A |-> MkClass(TRUE, <<>>, <<>>, "A.Result", "generic",
                   <<>>, <<>>, "A.Result", TRUE),
     B |-> MkClass(TRUE, <<"A">>, <<"A">>, "B.Result", "generic",
                   <<>>, <<"A.Result">>, "B.Result", TRUE),
     C |-> MkClass(TRUE, <<"B">>, <<"B">>, "C.Result", "generic",
                   <<>>, <<"B.Result">>, "C.Result", FALSE)]

\* classes that read results they did not declare, read a global, return
\* VoidResult, or define no classmethod
LooseClasses ==
    [A |-> MkClass(FALSE, <<>>, <<>>, "A.Result", "generic",
                   <<>>, <<>>, "A.Result", FALSE),
     B |-> MkClass(TRUE, <<"A">>, <<>>, "B.Result", "generic",
                   <<>>, <<"A.Result">>, "B.Result", TRUE),
     C |-> MkClass(TRUE, <<"A">>, <<"A">>, "C.Result", "generic",
                   <<"num_a">>, <<"A.Result">>, VoidResultType, TRUE)]

\* R depends on M and X, M on X, X on Z: X is reachable from R along two
\* paths and has a dependency of its own. Z and X only signal completion:
\* they define no inner Result class (their Result is Action.Result) and
\* return VoidResult(); R asks for the results of both its dependencies
DiamondClasses ==
    [Z |-> MkClass(TRUE, <<>>, <<>>, BaseResult, "generic",
                   <<>>, <<>>, VoidResultType, FALSE),
     X |-> MkClass(TRUE, <<"Z">>, <<"Z">>, BaseResult, "generic",
                   <<>>, <<>>, VoidResultType, FALSE),
     M |-> MkClass(TRUE, <<"X">>, <<"X">>, "M.Result", "generic",
                   <<>>, <<>>, "M.Result", FALSE),
     R |-> MkClass(TRUE, <<"M", "X">>, <<"M", "X">>, "R.Result", "generic",
                   <<>>, <<"M.Result", BaseResult>>, "R.Result", FALSE)]

\* two classes that declare each other as dependency
CyclicClasses ==
    [X |-> MkClass(TRUE, <<"Y">>, <<"Y">>, "X.Result", "generic",
                   <<>>, <<>>, "X.Result", FALSE),
     Y |-> MkClass(TRUE, <<"X">>, <<"X">>, "Y.Result", "generic",
                   <<>>, <<>>, "Y.Result", FALSE)]

\* the result types a caller can name
ResultTypes(cls) ==
    {cls[a].Result : a \in DOMAIN cls} \cup {VoidResultType, BaseResult}

\* the programs: a set of classes and the arguments of
\* ActionSolverBuilder(result, dry_run)
MkProgram(cls, res, dry) == [classes |-> cls, result |-> res, dry_run |-> dry]

Programs ==
    {MkProgram(TestClasses, "ReverseDigits.Result", FALSE),
     MkProgram(ChainClasses, "C.Result", FALSE),
     MkProgram(ChainClasses, "C.Result", TRUE),
     MkProgram(LooseClasses, "A.Result", FALSE),
     MkProgram(DiamondClasses, "R.Result", FALSE),
     MkProgram(CyclicClasses, BaseResult, FALSE)}

(***************************************************************************)
(* ActionSolverBuilder                                                     *)
(***************************************************************************)
\* the builder's graph and known-actions list, the dependencies declared to
\* it so far and the exception a builder method raised ("none" if none)
MkBuilder(g, acts, decl, err) ==
    [graph |-> g, actions |-> acts, declared |-> decl, error |-> err]

InList(x, list) == \E i \in 1..Len(list) : list[i] = x

\* list.index(x): the first position holding x
index(list, x) == CHOOSE i \in 1..Len(list) :
                      list[i] = x /\ \A j \in 1..(i - 1) : list[j] # x

\* _add_to_known_actions_and_graph without the membership test
_add_to_known_actions_and_graph_always(b, action) ==
    [b EXCEPT !.graph.vs = Append(@, action),
              !.actions = Append(@, action)]

_add_to_known_actions_and_graph(b, action) ==
    IF InList(action, b.actions)
    THEN b
    ELSE [b EXCEPT !.graph.vs = Append(@, action),
                   !.actions = Append(@, action)]

\* _add_edge with the two ends of the edge exchanged
_add_edge_reversed(b, from_action, to_action) ==
    [b EXCEPT !.graph.es = Append(@, <<index(b.actions, to_action),
                                       index(b.actions, from_action)>>)]

_add_edge(b, from_action, to_action) ==
    [b EXCEPT !.graph.es = Append(@, <<index(b.actions, from_action),
                                       index(b.actions, to_action)>>)]

add_dependency(b, action, depends_on) ==
    LET b1 == _add_to_known_actions_and_graph(b, action)
        b2 == _add_to_known_actions_and_graph(b1, depends_on)
        b3 == _add_edge(b2, depends_on, action)
    IN  [b3 EXCEPT !.declared = @ \cup {<<action, depends_on>>}]

RECURSIVE add_dependencies_from(_, _, _)
RECURSIVE add_dependencies_loop(_, _, _, _, _)

\* add_dependencies_from(action), entered at recursion depth `depth`
add_dependencies_from(b, action, depth) ==
    IF depth > RecursionLimit
    THEN [b EXCEPT !.error = "RecursionError"]
    ELSE LET b1 == _add_to_known_actions_and_graph(b, action)
         IN  IF ~classes[action].has_get_dependent_actions
             THEN [b1 EXCEPT !.error = "AttributeError"]
             ELSE add_dependencies_loop(
                      b1, action, classes[action].get_dependent_actions,
                      1, depth)

\* the for loop of add_dependencies_from, from its i-th iteration on
add_dependencies_loop(b, action, deps, i, depth) ==
    IF i > Len(deps)
    THEN b
    ELSE LET b1 == add_dependency(b, action, deps[i])
             b2 == add_dependencies_from(b1, deps[i], depth + 1)
         IN  IF b2.error # "none"
             THEN b2
             ELSE add_dependencies_loop(b2, action, deps, i + 1, depth)

\* an update that keeps the value of a key the dict already holds
dict_update_keeping(d, kwargs) ==
    [key \in (DOMAIN d) \cup (DOMAIN kwargs) |->
        IF key \in DOMAIN d THEN d[key] ELSE kwargs[key]]

\* dict.update(kwargs)
dict_update(d, kwargs) ==
    [key \in (DOMAIN d) \cup (DOMAIN kwargs) |->
        IF key \in DOMAIN kwargs THEN kwargs[key] ELSE d[key]]

\* the pairs <<action, dependency>> the classes declare through
\* get_dependent_actions
DeclaredRelation ==
    {p \in (DOMAIN classes) \X (DOMAIN classes) :
        /\ classes[p[1]].has_get_dependent_actions
        /\ InList(p[2], classes[p[1]].get_dependent_actions)}

\* the pairs <<action, depends_on>> the program passes to add_dependency:
\* the programs over the test's and the diamond's classes pass the pairs
\* their classes declare, the programs over the smaller tables any pair
AddDependencyArgs ==
    IF classes \in {TestClasses, DiamondClasses}
    THEN DeclaredRelation
    ELSE (DOMAIN classes) \X (DOMAIN classes)

\* the keyword arguments the program passes to bind_globals
KwArgs ==
    {[logger |-> LoggerVal],
     [num_a |-> IntVal(4), num_b |-> IntVal(2)],
     [num_a |-> IntVal(1), logger |-> StrVal]}

(***************************************************************************)
(* igraph.Graph                                                            *)
(***************************************************************************)
Vertices(g) == 1..Len(g.vs)

\* the sources of the edges into v whose source is not in `removed`
OpenInEdges(g, v, removed) ==
    {e \in 1..Len(g.es) : g.es[e][2] = v /\ g.es[e][1] \notin removed}

RECURSIVE Peel(_, _)
\* the vertices left after repeatedly removing vertices without in-edges
Peel(g, removed) ==
    LET free == {v \in Vertices(g) \ removed : OpenInEdges(g, v, removed) = {}}
    IN  IF free = {} THEN Vertices(g) \ removed
        ELSE Peel(g, removed \cup free)

\* Graph.is_dag()
is_dag(g) == Peel(g, {}) = {}

\* Vertex.all_edges(): the edges incident to v, in either direction
all_edges(g, v) ==
    {e \in 1..Len(g.es) : g.es[e][1] = v \/ g.es[e][2] = v}

RECURSIVE Sortings(_, _)
\* every list Kahn's algorithm can produce from the prefix `done`
Sortings(g, done) ==
    LET emitted == {done[i] : i \in 1..Len(done)}
        free == {v \in Vertices(g) \ emitted :
                    OpenInEdges(g, v, emitted) = {}}
    IN  IF free = {} THEN {done}
        ELSE UNION {Sortings(g, Append(done, v)) : v \in free}

\* topological_sorting(mode="in"): dependents before their dependencies
topological_sorting_in(g) ==
    {[i \in 1..Len(s) |-> s[Len(s) + 1 - i]] : s \in Sortings(g, <<>>)}

\* Graph.topological_sorting(): the lists it may return; on a graph with a
\* cycle it returns the vertices outside and before the cycle
topological_sorting(g) == Sortings(g, <<>>)

(***************************************************************************)
(* SolverState                                                             *)
(***************************************************************************)
\* the outcome of a call: the exception it raised ("none" if it returned)
\* and the value it returned
Raise(err) == [error |-> err, value |-> NoValue]

Return(value) == [error |-> "none", value |-> value]

\* SolverState.construct_empty(): empty globals and an empty result store
construct_empty == [globals |-> <<>>, results |-> <<>>]

\* SolverState.get_result(result_type)
state_get_result(res, result_type) ==
    IF result_type \in DOMAIN res
    THEN Return(res[result_type])
    ELSE Raise("ResultNotYetAvailable")

(***************************************************************************)
(* Action                                                                  *)
(***************************************************************************)
\* Action._unwrap_logger, called by Action.__init__: dict.get gives None
\* for an absent key
_unwrap_logger(g) ==
    LET logger == IF "logger" \in DOMAIN g THEN g["logger"] ELSE NoneVal
    IN  IF logger.kind # "Logger" THEN "TypeError" ELSE "none"

\* Action.dependent_results of an instance of class a
dependent_results(a) ==
    [i \in 1..Len(classes[a].dependent_actions) |->
        classes[classes[a].dependent_actions[i]].Result]

\* get_result that looks into the store before it checks the declaration
get_result_store_first(a, result_type, res) ==
    IF result_type \in DOMAIN res
    THEN state_get_result(res, result_type)
    ELSE IF ~InList(result_type, dependent_results(a))
    THEN Raise("MissingDependencyDeclarationException")
    ELSE Raise("ResultNotYetAvailable")

\* Action.get_result(result_type) called by an instance of class a
get_result(a, result_type, res) ==
    IF ~InList(result_type, dependent_results(a))
    THEN Raise("MissingDependencyDeclarationException")
    ELSE state_get_result(res, result_type)

\* Action.get_global(key) and self._state.globals[key]
get_global(g, key) ==
    IF key \in DOMAIN g THEN [error |-> "none", value |-> g[key]]
    ELSE [error |-> "KeyError", value |-> NoneVal]

DigitChars == <<"0", "1", "2", "3", "4", "5", "6", "7", "8", "9">>

RECURSIVE str(_)
\* str(n) of an integer, as a sequence of characters
str(n) ==
    IF n < 0 THEN <<"-">> \o str(-n)
    ELSE IF n < 10 THEN <<DigitChars[n + 1]>>
    ELSE Append(str(n \div 10), DigitChars[(n % 10) + 1])

\* s[::-1]
reversed(s) == [i \in 1..Len(s) |-> s[Len(s) + 1 - i]]

\* n ** 2
square(n) == n * n

RECURSIVE generic_reads(_, _, _, _)
\* the get_result calls of a generic _production_impl, from the i-th on
generic_reads(a, reads, i, res) ==
    IF i > Len(reads) THEN "none"
    ELSE LET r == get_result(a, reads[i], res)
         IN  IF r.error # "none" THEN r.error
             ELSE generic_reads(a, reads, i + 1, res)

RECURSIVE generic_keys(_, _, _)
\* the get_global calls of a generic _production_impl, from the i-th on
generic_keys(keys, i, g) ==
    IF i > Len(keys) THEN "none"
    ELSE IF get_global(g, keys[i]).error # "none"
         THEN get_global(g, keys[i]).error
         ELSE generic_keys(keys, i + 1, g)

\* _production_impl of an instance of class a; the values the programs bind
\* under num_a and num_b are integers
_production_impl(a, g, res) ==
    LET c == classes[a] IN
    CASE c.impl = "ProcessInputs" ->
            LET num_a == get_global(g, "num_a")
                num_b == get_global(g, "num_b")
            IN  IF num_a.error # "none" THEN Raise(num_a.error)
                ELSE IF num_b.error # "none" THEN Raise(num_b.error)
                ELSE Return(MkResult(c.Result, a,
                        <<num_a.value.v * 2, square(num_b.value.v)>>, <<>>))
      [] c.impl = "Add" ->
            LET processed_nums == get_result(a, "ProcessInputs.Result", res)
            IN  IF processed_nums.error # "none"
                THEN Raise(processed_nums.error)
                ELSE Return(MkResult(c.Result, a,
                        <<processed_nums.value.fields[1]
                            + processed_nums.value.fields[2]>>, <<>>))
      [] c.impl = "Multiply" ->
            LET processed_nums == get_result(a, "Add.Result", res)
            IN  IF processed_nums.error # "none"
                THEN Raise(processed_nums.error)
                ELSE Return(MkResult(c.Result, a,
                        <<processed_nums.value.fields[1] * 10>>, <<>>))
      [] c.impl = "ReverseDigits" ->
            LET product == get_result(a, "Multiply.Result", res)
            IN  IF product.error # "none"
                THEN Raise(product.error)
                ELSE Return(MkResult(c.Result, a, <<>>,
                        reversed(str(product.value.fields[1]))))
      [] OTHER ->
            LET k == generic_keys(c.keys, 1, g)
                r == generic_reads(a, c.reads, 1, res)
            IN  IF k # "none" THEN Raise(k)
                ELSE IF r # "none" THEN Raise(r)
                ELSE Return(MkResult(c.returns, a, <<>>, <<>>))

\* _dry_run_impl of an instance of class a: Action's default raises
_dry_run_impl(a) ==
    IF classes[a].has_dry_run_impl
    THEN Return(MkResult(classes[a].returns, a, <<>>, <<>>))
    ELSE Raise("NotImplementedError")

\* Action._format_heading
_format_heading(a, dry) ==
    <<"=== PROCESSING", a, IF dry THEN " (dry run)" ELSE "">>

\* invoke that runs the production implementation whatever dry_run is
invoke_production_only(a, dry, g, res) ==
    LET out == _production_impl(a, g, res)
        heading == <<_format_heading(a, dry)>>
    IN  [out |-> out,
         impl |-> "_production_impl",
         logged |-> IF out.error = "none" /\ ~dry
                    THEN Append(heading, <<" - done.", a, "">>)
                    ELSE heading]

\* Action.invoke(dry_run) of an instance of class a: the outcome, the
\* implementation it dispatched to and the messages it logged
invoke(a, dry, g, res) ==
    LET out == IF dry THEN _dry_run_impl(a) ELSE _production_impl(a, g, res)
        heading == <<_format_heading(a, dry)>>
    IN  [out |-> out,
         impl |-> IF dry THEN "_dry_run_impl" ELSE "_production_impl",
         logged |-> IF out.error = "none" /\ ~dry
                    THEN Append(heading, <<" - done.", a, "">>)
                    ELSE heading]

(***************************************************************************)
(* ActionSolver                                                            *)
(***************************************************************************)
\* _graph_has_leaf_nodes without the exception for a graph of one vertex
_graph_has_leaf_nodes_always(g) ==
    \E vertex \in Vertices(g) : Cardinality(all_edges(g, vertex)) = 0

\* ActionSolver._graph_has_leaf_nodes
_graph_has_leaf_nodes(g) ==
    IF Len(g.vs) = 1 THEN FALSE
    ELSE \E vertex \in Vertices(g) : Cardinality(all_edges(g, vertex)) = 0

\* __init__ without the is_dag check
solver_init_unchecked_cycle(g) ==
    IF _graph_has_leaf_nodes(g) THEN "ValueError: graph must be connected"
    ELSE "none"

\* ActionSolver.__init__: the exception it raises, or "none"
solver_init(g) ==
    IF ~is_dag(g) THEN "ValueError: graph must not have any cycle"
    ELSE IF _graph_has_leaf_nodes(g) THEN "ValueError: graph must be connected"
    ELSE "none"

\* _apply_step emptying the result store when the action raises
_apply_step_rollback(ordinal, acts, dry, g, res) ==
    LET action_class == acts[ordinal]
        ctor == _unwrap_logger(g)
        inv == invoke(action_class, dry, g, res)
    IN  IF ctor # "none"
        THEN [out |-> Raise(ctor), results |-> <<>>, logged |-> <<>>,
              call |-> [ordinal |-> ordinal, action |-> action_class,
                        impl |-> "none"]]
        ELSE [out |-> inv.out,
              results |-> IF inv.out.error = "none"
                          THEN dict_update(res,
                                   [t \in {inv.out.value.type} |-> inv.out.value])
                          ELSE <<>>,
              logged |-> inv.logged,
              call |-> [ordinal |-> ordinal, action |-> action_class,
                        impl |-> inv.impl]]

\* ActionSolver._apply_step(ordinal): the outcome, the new result store, the
\* record of the invocation and the messages logged
_apply_step(ordinal, acts, dry, g, res) ==
    LET action_class == acts[ordinal]
        ctor == _unwrap_logger(g)
        inv == invoke(action_class, dry, g, res)
    IN  IF ctor # "none"
        THEN [out |-> Raise(ctor), results |-> res, logged |-> <<>>,
              call |-> [ordinal |-> ordinal, action |-> action_class,
                        impl |-> "none"]]
        ELSE [out |-> inv.out,
              results |-> IF inv.out.error = "none"
                          THEN dict_update(res,
                                   [t \in {inv.out.value.type} |-> inv.out.value])
                          ELSE res,
              logged |-> inv.logged,
              call |-> [ordinal |-> ordinal, action |-> action_class,
                        impl |-> inv.impl]]

\* solve returning its final result without the type check
solve_finish_unchecked(final, expected) == Return(final)

\* the type check at the end of SequentialExecutionActionSolver.solve
solve_finish(final, expected) ==
    IF ~IsInstance(final, expected)
    THEN Raise("TypeError: expected to finalize")
    ELSE Return(final)

(***************************************************************************)
(* The state machine                                                       *)
(***************************************************************************)
\* the state after ActionSolverBuilder(result, dry_run)
Init ==
    /\ \E p \in Programs :
          /\ classes = p.classes
          /\ result = p.result
          /\ dry_run = p.dry_run
    /\ graph = [vs |-> <<>>, es |-> <<>>]
    /\ actions = <<>>
    /\ globals = construct_empty.globals
    /\ results = construct_empty.results
    /\ pc = "building"
    /\ error = "none"
    /\ order = <<>>
    /\ step = 0
    /\ final_result = NoValue
    /\ returned = NoValue
    /\ declared = {}
    /\ graph_log = <<>>
    /\ bind_log = <<>>
    /\ calls = <<>>
    /\ markers = <<>>

\* the builder is the caller's until solve() runs: from_builder hands the
\* solver the builder's own graph, list and state objects
BuilderUsable == pc \in {"building", "validated"}

\* the number of builder method calls made so far
BuilderCalls == Len(graph_log) + Len(bind_log)

\* a call of a graph-declaring builder method
MkCall(op, action, depends_on) ==
    [op |-> op, action |-> action, depends_on |-> depends_on]

\* the effect of the builder method call `call` that left the builder as b
BuilderCall(call, b) ==
    /\ graph' = b.graph
    /\ actions' = b.actions
    /\ declared' = b.declared
    /\ graph_log' = Append(graph_log, call)
    /\ error' = b.error
    /\ pc' = IF b.error # "none" THEN "failed" ELSE pc
    /\ UNCHANGED <<classes, result, dry_run, globals, results, order, step,
                   final_result, returned, bind_log, calls, markers>>

\* builder.add_dependency(action, depends_on)
AddDependency ==
    /\ BuilderUsable
    /\ BuilderCalls < MaxBuilderCalls
    /\ \E args \in AddDependencyArgs :
          BuilderCall(MkCall("add_dependency", args[1], args[2]),
                      add_dependency(
                          MkBuilder(graph, actions, declared, "none"),
                          args[1], args[2]))

\* builder.add_dependencies_from(action)
AddDependenciesFrom ==
    /\ BuilderUsable
    /\ BuilderCalls < MaxBuilderCalls
    /\ \E action \in DOMAIN classes :
          BuilderCall(MkCall("add_dependencies_from", action, ""),
                      add_dependencies_from(
                          MkBuilder(graph, actions, declared, "none"),
                          action, 1))

\* builder.bind_globals(**kwargs)
BindGlobals ==
    /\ BuilderUsable
    /\ BuilderCalls < MaxBuilderCalls
    /\ \E kwargs \in KwArgs :
          /\ globals' = dict_update(globals, kwargs)
          /\ bind_log' = Append(bind_log, kwargs)
    /\ UNCHANGED <<classes, result, dry_run, graph, actions, results, pc,
                   error, order, step, final_result, returned, declared, graph_log,
                   calls, markers>>

\* SequentialExecutionActionSolver.from_builder(builder)
FromBuilder ==
    /\ pc = "building"
    /\ error' = solver_init(graph)
    /\ pc' = IF solver_init(graph) = "none" THEN "validated" ELSE "failed"
    /\ UNCHANGED <<classes, result, dry_run, graph, actions, globals, results,
                   order, step, final_result, returned, declared, graph_log, bind_log,
                   calls, markers>>

\* solve() whose loop starts at the second element of the order
SolveStart_SkipFirst ==
    /\ pc = "validated"
    /\ final_result' = VoidResult("solve")
    /\ \/ /\ order' \in topological_sorting(graph)
          /\ step' = IF Len(order') > 0 THEN 1 ELSE 0
          /\ pc' = "executing"
          /\ error' = error
       \/ /\ ~is_dag(graph)
          /\ step' = 0
          /\ order' = order
          /\ pc' = "failed"
          /\ error' = "InternalError: the graph has cycles"
    /\ UNCHANGED <<classes, result, dry_run, graph, actions, globals, results,
                   returned, declared, graph_log, bind_log, calls, markers>>

\* solver.solve() up to the first iteration of its loop
SolveStart ==
    /\ pc = "validated"
    /\ final_result' = VoidResult("solve")
    /\ step' = 0
    /\ \/ /\ order' \in topological_sorting(graph)
          /\ pc' = "executing"
          /\ error' = error
       \/ /\ ~is_dag(graph)
          /\ order' = order
          /\ pc' = "failed"
          /\ error' = "InternalError: the graph has cycles"
    /\ UNCHANGED <<classes, result, dry_run, graph, actions, globals, results,
                   returned, declared, graph_log, bind_log, calls, markers>>

\* one iteration of solve()'s loop: final_result = self._apply_step(ordinal)
ApplyStep ==
    /\ pc = "executing"
    /\ step < Len(order)
    /\ LET s == _apply_step(order[step + 1], actions, dry_run, globals, results)
       IN  /\ step' = step + 1
           /\ calls' = Append(calls, s.call)
           /\ markers' = markers \o s.logged
           /\ results' = s.results
           /\ error' = s.out.error
           /\ pc' = IF s.out.error = "none" THEN "executing" ELSE "failed"
           /\ final_result' = IF s.out.error = "none" THEN s.out.value
                              ELSE final_result
    /\ UNCHANGED <<classes, result, dry_run, graph, actions, globals, order,
                   returned, declared, graph_log, bind_log>>

\* solve() after its loop: the type check and the return
SolveFinish ==
    /\ pc = "executing"
    /\ step = Len(order)
    /\ LET out == solve_finish(final_result, result)
       IN  /\ error' = out.error
           /\ returned' = out.value
           /\ pc' = IF out.error = "none" THEN "completed" ELSE "failed"
    /\ UNCHANGED <<classes, result, dry_run, graph, actions, globals, results,
                   order, step, final_result, declared, graph_log, bind_log, calls,
                   markers>>

Next ==
    \/ AddDependency
    \/ AddDependenciesFrom
    \/ BindGlobals
    \/ FromBuilder
    \/ SolveStart
    \/ ApplyStep
    \/ SolveFinish

Spec == Init /\ [][Next]_vars

(***************************************************************************)
(* Properties                                                              *)
(***************************************************************************)
RECURSIVE Closure(_, _)
\* every action reachable from the actions `seen` along declared
\* <<action, depends_on>> pairs, `seen` included
Closure(rel, seen) ==
    LET more == {p[2] : p \in {q \in rel : q[1] \in seen}} \ seen
    IN  IF more = {} THEN seen ELSE Closure(rel, seen \cup more)

\* the transitive dependency set of action a under the declared pairs
TransitiveDependencies(rel, a) ==
    Closure(rel, {p[2] : p \in {q \in rel : q[1] = a}})

\* no action depends transitively on itself
Acyclic(rel) ==
    \A p \in rel : p[1] \notin TransitiveDependencies(rel, p[1])

\* vertex v of g has no incident edge
Isolated(g, v) ==
    \A e \in 1..Len(g.es) : g.es[e][1] # v /\ g.es[e][2] # v

\* the step is the call of from_builder
IsFromBuilderStep ==
    /\ pc = "building"
    /\ pc' # "building"
    /\ graph_log' = graph_log

CycleError == "ValueError: graph must not have any cycle"

ConnectedError == "ValueError: graph must be connected"

\* C1: over an acyclic graph without isolated vertex, an action is applied
\* only after every action of its transitive dependency set was applied.
C1_DependenciesFirst ==
    \A i \in 1..Len(calls) :
        (/\ Acyclic(declared)
         /\ \A v \in Vertices(graph) :
               Len(graph.vs) = 1 \/ ~Isolated(graph, v))
        => \A d \in TransitiveDependencies(declared, calls[i].action) :
              \E j \in 1..(i - 1) : calls[j].action = d

\* a run applied an action after a dependency it only has transitively
C1_Witness ==
    /\ pc = "completed"
    /\ Acyclic(declared)
    /\ \E i \in 1..Len(calls) :
          \E d \in TransitiveDependencies(declared, calls[i].action) :
              /\ <<calls[i].action, d>> \notin declared
              /\ \E j \in 1..(i - 1) : calls[j].action = d

\* C2: when a run over a graph that passes validation has succeeded,
\* _apply_step was invoked exactly once for every vertex of the graph.
C2_ExactlyOncePerVertex ==
    (pc = "completed" /\ solver_init(graph) = "none")
    => \A v \in Vertices(graph) :
          Cardinality({i \in 1..Len(calls) : calls[i].ordinal = v}) = 1

\* a run over several vertices has succeeded
C2_Witness ==
    /\ pc = "completed"
    /\ solver_init(graph) = "none"
    /\ Len(graph.vs) >= 3
    /\ Len(calls) = Len(graph.vs)

\* the pairs <<dependent, dependency>> of the edges of g
EdgePairs(g) == {<<g.es[e][2], g.es[e][1]>> : e \in 1..Len(g.es)}

\* C3: from_builder over a graph with a directed cycle (a self-loop too)
\* fails with the cycle error, and after that failure no step is applied.
C3_CycleFailsConstruction ==
    /\ [][(IsFromBuilderStep /\ ~Acyclic(EdgePairs(graph)))
            => (pc' = "failed" /\ error' = CycleError)]_vars
    /\ [](error = CycleError => (pc = "failed" /\ calls = <<>>))

\* construction failed over a cycle of two actions that has no self-loop
C3_Witness ==
    /\ pc = "failed"
    /\ error = CycleError
    /\ ~Acyclic(EdgePairs(graph))
    /\ \A e \in 1..Len(graph.es) : graph.es[e][1] # graph.es[e][2]

\* C4: from_builder over a graph of two or more vertices one of which has no
\* incident edge fails with a configuration error; over a graph of exactly
\* one vertex and no edge it succeeds.
C4_IsolatedVertex ==
    [][IsFromBuilderStep =>
        /\ (Len(graph.vs) >= 2 /\ \E v \in Vertices(graph) : Isolated(graph, v))
            => (pc' = "failed" /\ error' \in {CycleError, ConnectedError})
        /\ (Len(graph.vs) = 1 /\ Len(graph.es) = 0)
            => (pc' = "validated" /\ error' = "none")]_vars

\* construction failed over an acyclic graph with an isolated vertex
C4_Witness ==
    /\ pc = "failed"
    /\ error = ConnectedError
    /\ Len(graph.vs) >= 3
    /\ \E v \in Vertices(graph) : Isolated(graph, v)

\* the Result types of the dependent actions class a declares
DeclaredResults(a) ==
    {classes[classes[a].dependent_actions[i]].Result :
        i \in 1..Len(classes[a].dependent_actions)}

MissingDeclaration == "MissingDependencyDeclarationException"

\* C5: during and after a run, get_result(T) of an action that did not
\* declare T raises the undeclared-dependency error, for every T the result
\* store holds and for T that may be absent from it; a step whose first
\* get_result asks for an undeclared type fails with it.
C5_UndeclaredDependency ==
    /\ pc \in {"executing", "completed", "failed"}
       => \A a \in DOMAIN classes :
             \A T \in (DOMAIN results \cup {BaseResult, VoidResultType})
                        \ DeclaredResults(a) :
                 get_result(a, T, results).error = MissingDeclaration
    /\ (/\ pc = "failed"
        /\ calls # <<>>
        /\ calls[Len(calls)].impl = "_production_impl"
        /\ classes[calls[Len(calls)].action].impl = "generic"
        /\ generic_keys(classes[calls[Len(calls)].action].keys, 1, globals)
              = "none"
        /\ classes[calls[Len(calls)].action].reads # <<>>
        /\ classes[calls[Len(calls)].action].reads[1]
              \notin DeclaredResults(calls[Len(calls)].action))
       => error = MissingDeclaration

\* a step failed asking for an undeclared type whose Result is in the store
C5_Witness ==
    /\ pc = "failed"
    /\ error = MissingDeclaration
    /\ calls # <<>>
    /\ classes[calls[Len(calls)].action].impl = "generic"
    /\ classes[calls[Len(calls)].action].reads[1] \in DOMAIN results
    /\ classes[calls[Len(calls)].action].reads[1]
          \notin DeclaredResults(calls[Len(calls)].action)

FinalizeError == "TypeError: expected to finalize"

\* the step is the part of solve() after its loop
IsSolveFinishStep ==
    /\ pc = "executing"
    /\ step = Len(order)
    /\ pc' # "executing"

\* C6 as stated: solve() returns only a Result whose concrete type equals
\* the expected final-result type.
C6_ExactTypeOnly ==
    (pc = "completed" /\ calls # <<>>) => returned.type = result

\* the classes a type derives from, itself included
Bases(type) == {type, BaseResult}

\* C6, amended: after all steps solve() fails with the type-mismatch error
\* whenever the expected type is neither the concrete type of its final
\* result nor a base class of it, and otherwise returns the final result.
C6_InstanceOfExpected ==
    [][IsSolveFinishStep =>
        IF result \in Bases(final_result.type)
        THEN pc' = "completed" /\ error' = "none" /\ returned' = final_result
        ELSE pc' = "failed" /\ error' = FinalizeError /\ returned' = NoValue]_vars

\* solve() returned the Result of a step whose type is a subclass of the
\* expected type
C6_Witness ==
    /\ pc = "completed"
    /\ calls # <<>>
    /\ returned.by = calls[Len(calls)].action
    /\ returned.type # result

\* C7: with dry_run set no step dispatches to a production implementation;
\* a step whose action has no simulation implementation is the last one and
\* fails the run with NotImplementedError, the steps before it having run
\* their simulation implementation.
C7_DryRunDispatch ==
    dry_run =>
        /\ \A i \in 1..Len(calls) : calls[i].impl # "_production_impl"
        /\ \A i \in 1..Len(calls) :
              (/\ calls[i].impl = "_dry_run_impl"
               /\ ~classes[calls[i].action].has_dry_run_impl)
              => /\ i = Len(calls)
                 /\ pc = "failed"
                 /\ error = "NotImplementedError"
        /\ \A i \in 1..(Len(calls) - 1) :
              /\ calls[i].impl = "_dry_run_impl"
              /\ classes[calls[i].action].has_dry_run_impl

\* a dry run simulated two steps and failed at the third, which has no
\* simulation implementation
C7_Witness ==
    /\ dry_run
    /\ pc = "failed"
    /\ error = "NotImplementedError"
    /\ Len(calls) = 3
    /\ calls[1].impl = "_dry_run_impl"

\* C8: the chain of tests/test_sequential_solver.py, registered by one
\* add_dependencies_from(ReverseDigits) with num_a = 4 and num_b = 2 bound,
\* is built and solved without error and solve() returns "021".
C8_ChainReturns021 ==
    (/\ classes = TestClasses
     /\ result = "ReverseDigits.Result"
     /\ bind_log = <<[num_a |-> IntVal(4), num_b |-> IntVal(2)]>>
     /\ graph_log = <<MkCall("add_dependencies_from", "ReverseDigits", "")>>)
    => /\ pc # "failed"
       /\ pc = "completed" =>
             /\ returned.by = "ReverseDigits"
             /\ returned.text = <<"0", "2", "1">>

\* C9: a builder on which one action without declared dependencies was
\* registered through add_dependencies_from, its Result type the expected
\* one and nothing of the wrong shape bound as logger, is built and solved
\* without error; the Result is stored under its type and is the one
\* returned.
C9_SingleActionSolves ==
    \A a \in DOMAIN classes :
        (/\ graph_log = <<MkCall("add_dependencies_from", a, "")>>
         /\ classes[a].get_dependent_actions = <<>>
         /\ classes[a].dependent_actions = <<>>
         /\ classes[a].impl = "generic"
         /\ classes[a].keys = <<>>
         /\ classes[a].reads = <<>>
         /\ classes[a].returns = classes[a].Result
         /\ result = classes[a].Result
         /\ ~dry_run
         /\ "logger" \in DOMAIN globals => globals["logger"] = LoggerVal)
        => /\ pc # "failed"
           /\ pc = "completed" =>
                 /\ Len(calls) = 1
                 /\ returned.by = a
                 /\ classes[a].Result \in DOMAIN results
                 /\ results[classes[a].Result] = returned

\* the indices of the bind_globals calls that bound key
BoundBy(key) == {i \in 1..Len(bind_log) : key \in DOMAIN bind_log[i]}

\* the greatest element of a non-empty set of integers
Latest(S) == CHOOSE i \in S : \A j \in S : j <= i

\* C10: the keys of globals are the keys some bind_globals call bound, and
\* each maps to the value given by the latest call that bound it.
C10_LastBindWins ==
    /\ DOMAIN globals = UNION {DOMAIN bind_log[i] : i \in 1..Len(bind_log)}
    /\ \A key \in DOMAIN globals :
          globals[key] = bind_log[Latest(BoundBy(key))][key]

\* two calls bound the same key to different values, and the first bound a
\* key the second did not mention
C10_Witness ==
    /\ Len(bind_log) = 2
    /\ \E key \in (DOMAIN bind_log[1]) \cap (DOMAIN bind_log[2]) :
          bind_log[1][key] # bind_log[2][key]
    /\ (DOMAIN bind_log[1]) \ (DOMAIN bind_log[2]) # {}

\* the last graph-declaring call made on the builder
LastGraphCall(log) == log[Len(log)]

\* the step repeats the add_dependency call the builder served last
IsRepeatedAddDependencyStep ==
    /\ graph_log # <<>>
    /\ graph_log' = Append(graph_log, LastGraphCall(graph_log))
    /\ LastGraphCall(graph_log).op = "add_dependency"

\* C11: add_dependency is idempotent: a second call with the same arguments
\* leaves the vertices, the edges and the known-actions list as the first
\* call left them.
C11_AddDependencyIdempotent ==
    [][IsRepeatedAddDependencyStep
       => (graph' = graph /\ actions' = actions)]_vars

\* the actions reachable from root along the declared relation
Reachable(root) == Closure(DeclaredRelation, {root})

\* the number of edges of g that run from vertex `from` to vertex `to`
EdgeCount(g, from, to) ==
    Cardinality({e \in 1..Len(g.es) : g.es[e] = <<from, to>>})

\* C12: a single add_dependencies_from(root) over an acyclic declared
\* relation yields a graph with every reachable action as exactly one
\* vertex and every declared pair among them as exactly one edge.
C12_EachPairOneEdge ==
    (/\ pc = "building"
     /\ Len(graph_log) = 1
     /\ graph_log[1].op = "add_dependencies_from"
     /\ Acyclic(DeclaredRelation))
    => LET root == graph_log[1].action
       IN  /\ \A a \in Reachable(root) :
                 Cardinality({v \in Vertices(graph) : graph.vs[v] = a}) = 1
           /\ \A v \in Vertices(graph) : graph.vs[v] \in Reachable(root)
           /\ \A p \in DeclaredRelation :
                 p[1] \in Reachable(root)
                 => EdgeCount(graph, index(actions, p[2]),
                              index(actions, p[1])) = 1

\* C13: once from_builder has returned, calls on the builder change neither
\* the graph, nor the known-actions list, nor the globals the solver holds.
C13_SnapshotImmutable ==
    [][pc = "validated"
       => (graph' = graph /\ actions' = actions /\ globals' = globals)]_vars

\* C14: during a run the result store holds one Result per applied step:
\* it starts empty, and after k successful steps it has k entries.
C14_OneEntryPerStep ==
    /\ pc \in {"building", "validated"} => DOMAIN results = {}
    /\ pc \in {"executing", "completed"}
       => Cardinality(DOMAIN results) = Len(calls)

\* the vertices of g without outgoing edge
Sinks(g) == {v \in Vertices(g) : \A e \in 1..Len(g.es) : g.es[e][1] # v}

\* the vertices of g without incoming edge
Sources(g) == {v \in Vertices(g) : \A e \in 1..Len(g.es) : g.es[e][2] # v}

\* C15: over a graph that passes validation and has exactly one sink, every
\* order solve() may follow ends with the sink, and the Result a successful
\* run returns is the one the sink action produced.
C15_UniqueSinkLast ==
    (/\ order # <<>>
     /\ solver_init(graph) = "none"
     /\ Cardinality(Sinks(graph)) = 1)
    => LET sink == CHOOSE v \in Sinks(graph) : TRUE
       IN  /\ order[Len(order)] = sink
           /\ pc = "completed"
              => /\ Len(calls) = Len(graph.vs)
                 /\ calls[Len(calls)].ordinal = sink
                 /\ returned.by = actions[sink]

\* a run over a graph with one sink and several sources, which admits
\* several orders, has succeeded
C15_Witness ==
    /\ pc = "completed"
    /\ solver_init(graph) = "none"
    /\ Cardinality(Sinks(graph)) = 1
    /\ Cardinality(Sources(graph)) >= 2
    /\ Cardinality(topological_sorting(graph)) >= 2
    /\ returned.by = actions[CHOOSE v \in Sinks(graph) : TRUE]

\* the step is an iteration of solve()'s loop whose action raised
IsFailingStep ==
    /\ pc = "executing"
    /\ pc' = "failed"
    /\ calls' # calls

\* C16: an error raised by the step at position k ends the run at once: the
\* failing step leaves the result store as the completed steps left it, the
\* error is the run's outcome, and no further step is applied.
C16_FailureStopsRun ==
    /\ [][IsFailingStep
          => /\ results' = results
             /\ Len(calls') = Len(calls) + 1
             /\ error' # "none"]_vars
    /\ [](error # "none" => pc = "failed")
    /\ [][pc = "failed" => (calls' = calls /\ results' = results)]_vars

\* the second or a later step of a run raised while steps were still to be
\* applied, and the store holds the Results of the steps before it
C16_Witness ==
    /\ pc = "failed"
    /\ Len(calls) >= 2
    /\ Len(calls) < Len(order)
    /\ step = Len(calls)
    /\ Cardinality(DOMAIN results) = Len(calls) - 1

\* C17: the logger is optional: while no value is bound under "logger",
\* every step is instantiated and invoked and logs nothing, and Action's
\* constructor raises TypeError only for a bound value that is no Logger.
C17_LoggerOptional ==
    /\ "logger" \notin DOMAIN globals
       => /\ \A i \in 1..Len(calls) : calls[i].impl # "none"
          /\ markers = <<>>
    /\ error = "TypeError"
       => /\ "logger" \in DOMAIN globals
          /\ globals["logger"] # LoggerVal

\* the builder served exactly one graph-declaring call, an
\* add_dependencies_from, over an acyclic declared relation
BuiltFromRoot ==
    /\ Len(graph_log) = 1
    /\ graph_log[1].op = "add_dependencies_from"
    /\ Acyclic(DeclaredRelation)

\* C18: in a run over a graph built by add_dependencies_from(root) from an
\* acyclic relation, get_result for the Result type of a declared dependent
\* action never finds the store without it.
C18_DeclaredResultAvailable ==
    BuiltFromRoot => error # "ResultNotYetAvailable"

\* C19: add_dependencies_from returns for every declared relation, cyclic
\* ones included: the builder never exhausts the interpreter's stack.
C19_WalkTerminates ==
    /\ error # "RecursionError"
    /\ (/\ pc = "building"
        /\ graph_log # <<>>
        /\ LastGraphCall(graph_log).op = "add_dependencies_from"
        /\ ~Acyclic(DeclaredRelation))
       => solver_init(graph) = CycleError

\* C20: the known-actions list has no duplicate and mirrors the vertices:
\* as many actions as vertices, the i-th action being vertex i; every edge
\* joins the vertices of a declared pair, and every ordinal of the order and
\* every applied step denotes actions[ordinal].
C20_ActionsMirrorVertices ==
    /\ \A i, j \in 1..Len(actions) : actions[i] = actions[j] => i = j
    /\ Len(actions) = Len(graph.vs)
    /\ \A i \in 1..Len(actions) : graph.vs[i] = actions[i]
    /\ \A e \in 1..Len(graph.es) :
          /\ graph.es[e][1] \in 1..Len(actions)
          /\ graph.es[e][2] \in 1..Len(actions)
          /\ <<actions[graph.es[e][2]], actions[graph.es[e][1]]>> \in declared
    /\ \A i \in 1..Len(order) : order[i] \in 1..Len(actions)
    /\ \A i \in 1..Len(calls) :
          /\ calls[i].ordinal = order[i]
          /\ calls[i].action = actions[calls[i].ordinal]

\* two builder calls named the same action, and a run applied several steps
C20_Witness ==
    /\ Len(graph_log) >= 2
    /\ graph_log[1].action \in {graph_log[2].action, graph_log[2].depends_on}
    /\ Len(actions) >= 3
    /\ Len(calls) >= 2

=============================================================================
